---- MODULE Spec2Model ----
(***************************************************************************)
(* Model of build.py: the three stages of the macro library build          *)
(* (embedding of lua files, splicing of the webout sources into the two    *)
(* createwebservice macros, concatenation into all.sas) over a small file  *)
(* tree.                                                                   *)
(*                                                                         *)
(* A Python string is a sequence of one-character strings.  A few fixed    *)
(* texts of the program are kept as one unit each (the two marker texts,   *)
(* the comment close '**/', the fixed parts of the generated headers); no  *)
(* text of the model contains a part of such a unit, so equality of        *)
(* sequences is equality of the strings they stand for.                    *)
(*                                                                         *)
(* A write reaches the file when it is made: the run reads no file back    *)
(* before the handle that wrote it is closed or, for the ml of an earlier  *)
(* lua file, released by the rebinding of the name.  handles holds the     *)
(* file objects that no close() and no with block has closed, whether or   *)
(* not the interpreter has released them.                                  *)
(***************************************************************************)
EXTENDS Naturals, Sequences, FiniteSets, TLC

VARIABLES
  fs,       \* the file tree: path -> content, NoFile where there is none
  pc,       \* the statement the run is at
  err,      \* the exception that ended the run, NoErr when none did
  handles,  \* the file objects opened and not closed by close() or a with
  files,    \* line 5: the lua files, in the order they were listed
  li,       \* line 6: how many of them the loop has done
  idx,      \* line 31: the position of file in WebFiles
  ln,       \* line 41: how many lines of infile have been read
  delrow,   \* line 40
  rpos,     \* how many lines of webout0, webout1, webout2 have been read
  fi,       \* line 87: the position of folder in Folders
  run,      \* the number of this run of build.py on the tree
  orig,     \* the targets as this run found them
  before    \* the targets as the run before this one found them

vars == <<fs, pc, err, handles, files, li, idx, ln, delrow, rpos, fi, run, orig, before>>

(***************************************************************************)
(* Bounds of the model.                                                    *)
(***************************************************************************)
MaxTargetLines == 3
MaxSrcLines == 3
MaxLuaLen == 3
MaxRuns == 2

(***************************************************************************)
(* Strings.                                                                *)
(***************************************************************************)
NL == "\n"
SP == " "
QUOTE == "'"
WEBOUT_BEGIN == "/* WEBOUT BEGIN */"
WEBOUT_END == "/* WEBOUT END */"
COMMENT_CLOSE == "**/"

\* str.rstrip() with no argument strips these (of the characters of the model)
Whitespace == {" ", "\n", "\t", "\r"}

\* stands in the tree where a path has no file; it is no content of a file
NoFile == <<"<no file>">>
NoErr == [kind |-> "none", path |-> <<>>]

RECURSIVE Flatten(_)
\* ''.join(seqs)
Flatten(seqs) ==
  IF seqs = <<>> THEN <<>> ELSE Head(seqs) \o Flatten(Tail(seqs))

Last(s) == s[Len(s)]

Front(s) == SubSeq(s, 1, Len(s) - 1)

EndsWith(s, suffix) ==
  /\ Len(s) >= Len(suffix)
  /\ SubSeq(s, Len(s) - Len(suffix) + 1, Len(s)) = suffix

StartsWith(s, prefix) ==
  /\ Len(s) >= Len(prefix)
  /\ SubSeq(s, 1, Len(prefix)) = prefix

RECURSIVE RStrip(_)
\* line.rstrip()
RStrip(s) ==
  IF s # <<>> /\ Last(s) \in Whitespace THEN RStrip(Front(s)) ELSE s

\* a replace that doubles nothing
NoEscape(s) == s

RECURSIVE Escape(_)
\* s.replace("'", "''")
Escape(s) ==
  IF s = <<>> THEN <<>>
  ELSE IF Head(s) = QUOTE THEN <<QUOTE, QUOTE>> \o Escape(Tail(s))
  ELSE <<Head(s)>> \o Escape(Tail(s))

PutOpen == <<" ", " ", "p", "u", "t", " ", "'">>
PutClose == <<" ", "'", ";", "\n">>

\* "  put '" + line.rstrip().replace("'","''") + " ';\n"
PutStatement(line) == PutOpen \o Escape(RStrip(line)) \o PutClose

RECURSIVE SplitLines(_, _)
\* iteration over a text file: each line keeps its '\n'; a last line that has
\* none is a line too
SplitLines(content, cur) ==
  IF content = <<>> THEN (IF cur = <<>> THEN <<>> ELSE <<cur>>)
  ELSE IF Head(content) = NL THEN <<cur \o <<NL>>>> \o SplitLines(Tail(content), <<>>)
  ELSE SplitLines(Tail(content), cur \o <<Head(content)>>)

Lines(content) == SplitLines(content, <<>>)

(***************************************************************************)
(* Paths.  A path is the string the program builds ('lua/' + name + '.sas').*)
(***************************************************************************)
S_base == <<"b", "a", "s", "e">>
S_meta == <<"m", "e", "t", "a">>
S_metax == <<"m", "e", "t", "a", "x">>
S_viya == <<"v", "i", "y", "a">>
S_lua == <<"l", "u", "a">>
DOT_SAS == <<".", "s", "a", "s">>
DOT_LUA == <<".", "l", "u", "a">>

JSONOUT ==
  <<"b", "a", "s", "e", "/", "m", "p", "_", "j", "s", "o", "n", "o", "u", "t", ".", "s", "a", "s">>
GETUSER ==
  <<"b", "a", "s", "e", "/", "m", "f", "_", "g", "e", "t", "u", "s", "e", "r", ".", "s", "a", "s">>
MV_TARGET ==
  <<"v", "i", "y", "a", "/", "m", "v", "_", "c", "r", "e", "a", "t", "e", "w", "e", "b", "s", "e", "r", "v", "i", "c", "e", ".", "s", "a", "s">>
MV_WEBOUT ==
  <<"v", "i", "y", "a", "/", "m", "v", "_", "w", "e", "b", "o", "u", "t", ".", "s", "a", "s">>
MM_TARGET ==
  <<"m", "e", "t", "a", "/", "m", "m", "_", "c", "r", "e", "a", "t", "e", "w", "e", "b", "s", "e", "r", "v", "i", "c", "e", ".", "s", "a", "s">>
MM_WEBOUT ==
  <<"m", "e", "t", "a", "/", "m", "m", "_", "w", "e", "b", "o", "u", "t", ".", "s", "a", "s">>
ALL_SAS ==
  <<"a", "l", "l", ".", "s", "a", "s">>

\* files=['viya/mv_createwebservice.sas','meta/mm_createwebservice.sas']
WebFiles == <<MV_TARGET, MM_TARGET>>

\* folders=['base','meta','metax','viya','lua']
Folders == <<S_base, S_meta, S_metax, S_viya, S_lua>>

\* file + 'TEMP'
TempOf(file) == file \o <<"T", "E", "M", "P">>

\* 'mc_' + folder + '.sas'
McPath(folder) == <<"m", "c", "_">> \o folder \o DOT_SAS

\* the webout1 of a target
Webout1Of(file) == IF file = MV_TARGET THEN MV_WEBOUT ELSE MM_WEBOUT

\* weboutfiles=[webout0,webout1,webout2]
WeboutVars == <<"webout0", "webout1", "webout2">>

WeboutPath(v, file) ==
  IF v = "webout0" THEN JSONOUT
  ELSE IF v = "webout1" THEN Webout1Of(file)
  ELSE GETUSER

RECURSIVE LastIndexOf(_, _)
\* the index of the last c in s, 0 when there is none
LastIndexOf(s, c) ==
  IF s = <<>> THEN 0
  ELSE IF Last(s) = c THEN Len(s)
  ELSE LastIndexOf(Front(s), c)

\* os.path.basename
BaseName(p) == SubSeq(p, LastIndexOf(p, "/") + 1, Len(p))

\* the directory an entry of iterdir() lies in
DirName(p) ==
  IF LastIndexOf(p, "/") = 0 THEN <<>> ELSE SubSeq(p, 1, LastIndexOf(p, "/") - 1)

\* os.path.splitext(basename)[0]: the extension starts at the last dot, a
\* dot that leads the name is no extension
SplitExtRoot(b) ==
  IF LastIndexOf(b, ".") <= 1 THEN b ELSE SubSeq(b, 1, LastIndexOf(b, ".") - 1)

\* Path.match("*" + ext): the pattern is matched against the last component
Match(p, ext) == EndsWith(BaseName(p), ext)

\* 'ml_' + os.path.splitext(basename)[0]
MlName(file) == <<"m", "l", "_">> \o SplitExtRoot(BaseName(file))

\* 'lua/' + name + '.sas'
MlPath(file) == S_lua \o <<"/">> \o MlName(file) \o DOT_SAS

LuaX == S_lua \o <<"/", "x">> \o DOT_LUA
LuaY == S_lua \o <<"/", "y">> \o DOT_LUA
MetaxA == S_metax \o <<"/", "a">> \o DOT_SAS
MetaxB == S_metax \o <<"/", "b">> \o DOT_SAS
MetaxUpperB == S_metax \o <<"/", "B">> \o DOT_SAS
MetaxTxt == S_metax \o <<"/", "n", ".", "t", "x", "t">>

LuaPaths == {LuaX, LuaY}
MetaxPaths == {MetaxA, MetaxB, MetaxUpperB, MetaxTxt}
SourcePaths == {JSONOUT, GETUSER, MV_WEBOUT, MM_WEBOUT}
TargetPaths == {MV_TARGET, MM_TARGET}

AllPaths ==
  SourcePaths \cup TargetPaths \cup {TempOf(t) : t \in TargetPaths}
    \cup LuaPaths \cup {MlPath(l) : l \in LuaPaths} \cup MetaxPaths
    \cup {McPath(Folders[i]) : i \in 1..Len(Folders)} \cup {ALL_SAS}

\* ord() of the characters of the file names
Ord ==
  ("." :> 46) @@ ("/" :> 47) @@ ("B" :> 66) @@ ("E" :> 69) @@ ("M" :> 77)
    @@ ("P" :> 80) @@ ("T" :> 84) @@ ("_" :> 95) @@ ("a" :> 97) @@ ("b" :> 98)
    @@ ("c" :> 99) @@ ("e" :> 101) @@ ("f" :> 102) @@ ("g" :> 103)
    @@ ("i" :> 105) @@ ("j" :> 106) @@ ("l" :> 108) @@ ("m" :> 109)
    @@ ("n" :> 110) @@ ("o" :> 111) @@ ("p" :> 112) @@ ("r" :> 114)
    @@ ("s" :> 115) @@ ("t" :> 116) @@ ("u" :> 117) @@ ("v" :> 118)
    @@ ("w" :> 119) @@ ("x" :> 120) @@ ("y" :> 121)

RECURSIVE StrLess(_, _)
\* a < b of two str: by code point, a proper prefix first
StrLess(a, b) ==
  IF b = <<>> THEN FALSE
  ELSE IF a = <<>> THEN TRUE
  ELSE IF Head(a) # Head(b) THEN Ord[Head(a)] < Ord[Head(b)]
  ELSE StrLess(Tail(a), Tail(b))

\* a < b of two Path of the listing of one folder or of two: the parts are
\* compared in turn
PathLess(p, q) ==
  IF DirName(p) = DirName(q) THEN StrLess(BaseName(p), BaseName(q))
  ELSE StrLess(DirName(p), DirName(q))

RECURSIVE Insert(_, _)
Insert(p, sorted) ==
  IF sorted = <<>> THEN <<p>>
  ELSE IF PathLess(p, Head(sorted)) THEN <<p>> \o sorted
  ELSE <<Head(sorted)>> \o Insert(p, Tail(sorted))

\* the listing left in the order the folder gave it
Unsorted(filenames) == filenames

RECURSIVE SortPaths(_)
\* filenames.sort()
SortPaths(filenames) ==
  IF filenames = <<>> THEN <<>>
  ELSE Insert(Head(filenames), SortPaths(Tail(filenames)))

\* the orders in which the entries S of a folder can be listed
Listings(S) ==
  {l \in [1..Cardinality(S) -> S] : \A i, j \in 1..Cardinality(S) : l[i] = l[j] => i = j}

\* the entries of a folder: Path(folder).iterdir()
Entries(tree, folder) ==
  {p \in AllPaths : tree[p] # NoFile /\ DirName(p) = folder}

\* [f for f in listing if f.match("*" + ext)]
Matching(listing, ext) == SelectSeq(listing, LAMBDA p : Match(p, ext))

(***************************************************************************)
(* Stage 1: the text of a generated ml_<name>.sas.                         *)
(***************************************************************************)
RECURSIVE EmbedPuts(_)
\* for line in infile: ml.write("  put '" + ... + " ';\n")
EmbedPuts(lines) ==
  IF lines = <<>> THEN <<>>
  ELSE PutStatement(Head(lines)) \o EmbedPuts(Tail(lines))

\* ml.write of lines 10-20
MlHead(name, basename) ==
  <<"/**", NL>>
    \o <<"  @file ">> \o name \o <<".sas", NL>>
    \o <<"  @brief Compiles the ">> \o basename \o <<" lua file", NL>>
    \o <<"  @details Writes ">> \o basename \o <<" to the work directory", NL>>
    \o <<"  and then includes it.", NL>>
    \o <<"  Usage:", NL, NL>>
    \o <<"      %">> \o name \o <<"()", NL, NL>>
    \o <<COMMENT_CLOSE, NL, NL>>
    \o <<"%macro ">> \o name \o <<"();", NL>>
    \o <<"data _null_;", NL>>
    \o <<"  file \"%sysfunc(pathname(work))/">> \o name \o <<".lua\";", NL>>

\* ml.write of lines 24-26
MlTail(name) ==
  <<"run;", NL>>
    \o <<"%mend;", NL, NL>>
    \o <<"%inc \"%sysfunc(pathname(work))/">> \o name \o <<".lua\";", NL>>

\* everything one iteration of the loop of line 6 writes to ml
MlText(file, content) ==
  MlHead(MlName(file), BaseName(file)) \o EmbedPuts(Lines(content))
    \o MlTail(MlName(file))

(***************************************************************************)
(* Stage 2: one line of the target.                                        *)
(***************************************************************************)
BeginLine == <<WEBOUT_BEGIN, NL>>
EndLine == <<WEBOUT_END, NL>>
CloseLine == <<COMMENT_CLOSE, NL>>

\* stripcomment=1 at the top of each weboutfile
StripCommentStart == 1

RECURSIVE StripPuts(_, _)
\* for w in weboutfile: the put statements written for the lines ws that are
\* left to read, from the value of stripcomment
StripPuts(ws, stripcomment) ==
  IF ws = <<>> THEN <<>>
  ELSE IF Head(ws) = CloseLine THEN StripPuts(Tail(ws), 0)
  ELSE IF stripcomment = 0 THEN PutStatement(Head(ws)) \o StripPuts(Tail(ws), 0)
  ELSE StripPuts(Tail(ws), stripcomment)

\* stripcomment=0 at the top of each weboutfile
WeboutPutsUnstripped(rest) ==
  Flatten([i \in 1..Len(rest) |-> StripPuts(rest[i], 0)])

\* for weboutfile in weboutfiles: rest[i] is what is left to read of the i-th
WeboutPuts(rest) ==
  Flatten([i \in 1..Len(rest) |-> StripPuts(rest[i], StripCommentStart)])

\* delrow not set at the begin marker
NextDelrowNoBegin(line, d) ==
  IF d = 1 /\ line = EndLine THEN 0 ELSE d

\* delrow after the line
NextDelrow(line, d) ==
  IF line = BeginLine THEN 1
  ELSE IF d = 1 /\ line = EndLine THEN 0
  ELSE d

\* an else in the place of elif delrow==0
LineOutputNoSuppress(line, d, puts) ==
  IF line = BeginLine THEN BeginLine \o puts
  ELSE IF d = 1 /\ line = EndLine THEN EndLine
  ELSE RStrip(line) \o <<NL>>

\* what the line makes the loop write to outfile
LineOutput(line, d, puts) ==
  IF line = BeginLine THEN BeginLine \o puts
  ELSE IF d = 1 /\ line = EndLine THEN EndLine
  ELSE IF d = 0 THEN RStrip(line) \o <<NL>>
  ELSE <<>>

(***************************************************************************)
(* Stage 3.                                                                *)
(***************************************************************************)
\* header="""...""" of lines 65-83
HEADER == <<"<header of all.sas>">>

RECURSIVE ReadAll(_, _)
\* for fname in filenames: outfile.write(infile.read())
ReadAll(tree, filenames) ==
  IF filenames = <<>> THEN <<>>
  ELSE tree[Head(filenames)] \o ReadAll(tree, Tail(filenames))

(***************************************************************************)
(* The trees the build is run on.                                          *)
(***************************************************************************)
SeqsUpTo(S, n) == UNION {[1..m -> S] : m \in 0..n}

\* the text of the lines with these bodies; the last line has its '\n' or not
TextOf(bodies, terminated) ==
  LET text == Flatten([i \in 1..Len(bodies) |-> bodies[i] \o <<NL>>])
  IN IF terminated \/ text = <<>> THEN text ELSE Front(text)

TargetLineBodies == {<<WEBOUT_BEGIN>>, <<WEBOUT_END>>, <<"k">>, <<WEBOUT_BEGIN, SP>>}

TargetContents ==
  {TextOf(b, t) : b \in SeqsUpTo(TargetLineBodies, MaxTargetLines), t \in BOOLEAN}

SrcLineBodies == {<<COMMENT_CLOSE>>, <<"x", QUOTE>>, <<COMMENT_CLOSE, SP>>}

SrcContents ==
  {TextOf(b, t) : b \in SeqsUpTo(SrcLineBodies, MaxSrcLines), t \in BOOLEAN}

LuaContents == SeqsUpTo({"p", QUOTE, SP, NL}, MaxLuaLen)

DefaultTarget ==
  <<"a", SP, NL, WEBOUT_BEGIN, NL, "k", NL, WEBOUT_END, NL, "z", NL>>
JunkTarget == <<WEBOUT_BEGIN, NL, "k", NL, WEBOUT_END, NL>>

DefaultTree ==
  [p \in AllPaths |->
    IF p = JSONOUT THEN <<"h", NL, COMMENT_CLOSE, NL, "j", NL>>
    ELSE IF p = MV_WEBOUT THEN <<COMMENT_CLOSE, NL, "v", NL>>
    ELSE IF p = MM_WEBOUT THEN <<COMMENT_CLOSE, NL, "m", NL>>
    ELSE IF p = GETUSER THEN <<COMMENT_CLOSE, NL, "u", QUOTE, NL>>
    ELSE IF p \in TargetPaths THEN DefaultTarget
    ELSE IF p = LuaX THEN <<"p", QUOTE, NL>>
    ELSE IF p = MetaxA THEN <<"A", NL>>
    ELSE NoFile]

\* the default tree with the files of over replaced
Tree(over) ==
  [p \in AllPaths |-> IF p \in DOMAIN over THEN over[p] ELSE DefaultTree[p]]

\* the targets vary
TargetTrees == {Tree([p \in TargetPaths |-> c]) : c \in TargetContents}

\* a splice source varies beside the default sources, inside the default target
SourceTrees ==
  {Tree([p \in which |-> c]) :
     c \in SrcContents, which \in {{JSONOUT}, {MV_WEBOUT, MM_WEBOUT}}}

\* one splice source varies, the others are empty, inside the target of one
\* junk line
LoneSourceTrees ==
  {Tree([p \in SourcePaths \cup TargetPaths |->
          IF p \in TargetPaths THEN JunkTarget
          ELSE IF p \in {MV_WEBOUT, MM_WEBOUT} THEN c
          ELSE <<>>]) :
     c \in SrcContents}

\* files of the splice stage are missing
MissingTrees ==
  {Tree([p \in missing |-> NoFile]) : missing \in SUBSET (SourcePaths \cup TargetPaths)}

\* the lua files vary
LuaTrees ==
  {Tree((LuaX :> x) @@ (LuaY :> NoFile)) : x \in LuaContents \cup {NoFile}}
    \cup {Tree((LuaX :> x) @@ (LuaY :> <<QUOTE, "q", NL, "r">>)) :
            x \in {NoFile, DefaultTree[LuaX]}}

\* the files of a folder vary
FolderTrees ==
  {Tree([p \in MetaxPaths |-> IF p \in present THEN <<Head(BaseName(p)), NL>> ELSE NoFile]) :
     present \in SUBSET MetaxPaths}

Trees ==
  TargetTrees \cup SourceTrees \cup LoneSourceTrees \cup MissingTrees
    \cup LuaTrees \cup FolderTrees

TargetsOf(tree) == [t \in TargetPaths |-> tree[t]]

(***************************************************************************)
(* The run.                                                                *)
(***************************************************************************)
Handle(v, p) == [var |-> v, path |-> p]

Fresh ==
  /\ pc = "list"
  /\ err = NoErr
  /\ handles = {}
  /\ files = <<>>
  /\ li = 0
  /\ idx = 1
  /\ ln = 0
  /\ delrow = 0
  /\ rpos = [v \in {"webout0", "webout1", "webout2"} |-> 0]
  /\ fi = 1

Init ==
  /\ fs \in Trees
  /\ Fresh
  /\ run = 1
  /\ orig = TargetsOf(fs)
  /\ before = TargetsOf(fs)

\* an open() of a file that is not there
Raise(path) ==
  /\ pc' = "aborted"
  /\ err' = [kind |-> "FileNotFoundError", path |-> path]

\* line 5
ListLua ==
  /\ pc = "list"
  /\ \E l \in Listings(Entries(fs, S_lua)) : files' = Matching(l, DOT_LUA)
  /\ pc' = "embed"
  /\ UNCHANGED <<fs, err, handles, li, idx, ln, delrow, rpos, fi, run, orig, before>>

\* lines 6-26: one lua file
Embed ==
  /\ pc = "embed"
  /\ li < Len(files)
  /\ LET file == files[li + 1]
     IN /\ fs' = [fs EXCEPT ![MlPath(file)] = MlText(file, fs[file])]
        /\ handles' = handles \cup {Handle("ml", MlPath(file))}
  /\ li' = li + 1
  /\ UNCHANGED <<pc, err, files, idx, ln, delrow, rpos, fi, run, orig, before>>

\* line 27, after at least one lua file
CloseMl ==
  /\ pc = "embed"
  /\ li = Len(files)
  /\ li > 0
  /\ handles' = handles \ {Handle("ml", MlPath(files[li]))}
  /\ pc' = "webout0"
  /\ UNCHANGED <<fs, err, files, li, idx, ln, delrow, rpos, fi, run, orig, before>>

\* line 27, after no lua file: the name ml is not bound
CloseMlUnbound ==
  /\ pc = "embed"
  /\ li = Len(files)
  /\ li = 0
  /\ pc' = "aborted"
  /\ err' = [kind |-> "NameError", path |-> <<>>]
  /\ UNCHANGED <<fs, handles, files, li, idx, ln, delrow, rpos, fi, run, orig, before>>

\* lines 32, 33-36, 37: weboutN=open(...,'r')
OpenWebout(v, next) ==
  /\ pc = v
  /\ LET path == WeboutPath(v, WebFiles[idx])
     IN IF fs[path] = NoFile
        THEN Raise(path) /\ UNCHANGED <<handles, rpos>>
        ELSE /\ handles' = handles \cup {Handle(v, path)}
             /\ rpos' = [rpos EXCEPT ![v] = 0]
             /\ pc' = next
             /\ err' = err
  /\ UNCHANGED <<fs, files, li, idx, ln, delrow, fi, run, orig, before>>

\* line 38: outfile=open(file + 'TEMP','w')
OpenOutfile ==
  /\ pc = "outfile"
  /\ fs' = [fs EXCEPT ![TempOf(WebFiles[idx])] = <<>>]
  /\ handles' = handles \cup {Handle("outfile", TempOf(WebFiles[idx]))}
  /\ pc' = "infile"
  /\ UNCHANGED <<err, files, li, idx, ln, delrow, rpos, fi, run, orig, before>>

\* lines 39-40: infile=open(file,'r'); delrow=0
OpenInfile ==
  /\ pc = "infile"
  /\ IF fs[WebFiles[idx]] = NoFile
     THEN Raise(WebFiles[idx]) /\ UNCHANGED <<handles, ln, delrow>>
     ELSE /\ handles' = handles \cup {Handle("infile", WebFiles[idx])}
          /\ ln' = 0
          /\ delrow' = 0
          /\ pc' = "line"
          /\ err' = err
  /\ UNCHANGED <<fs, files, li, idx, rpos, fi, run, orig, before>>

\* what is left to read of the three webout files
WeboutRest(file) ==
  [i \in 1..Len(WeboutVars) |->
    LET ws == Lines(fs[WeboutPath(WeboutVars[i], file)])
    IN SubSeq(ws, rpos[WeboutVars[i]] + 1, Len(ws))]

\* lines 41-56: one line of infile
SpliceLine ==
  /\ pc = "line"
  /\ ln < Len(Lines(fs[WebFiles[idx]]))
  /\ LET file == WebFiles[idx]
         line == Lines(fs[file])[ln + 1]
     IN /\ fs' = [fs EXCEPT ![TempOf(file)] =
                    @ \o LineOutput(line, delrow, WeboutPuts(WeboutRest(file)))]
        /\ delrow' = NextDelrow(line, delrow)
        /\ rpos' = IF line = BeginLine
                   THEN [v \in DOMAIN rpos |-> Len(Lines(fs[WeboutPath(v, file)]))]
                   ELSE rpos
  /\ ln' = ln + 1
  /\ UNCHANGED <<pc, err, handles, files, li, idx, fi, run, orig, before>>

\* line 57, at the end of infile: webout0.close()
CloseWebout0 ==
  /\ pc = "line"
  /\ ln = Len(Lines(fs[WebFiles[idx]]))
  /\ handles' = handles \ {Handle("webout0", JSONOUT)}
  /\ pc' = "close1"
  /\ UNCHANGED <<fs, err, files, li, idx, ln, delrow, rpos, fi, run, orig, before>>

\* line 58: webout1.close()
CloseWebout1 ==
  /\ pc = "close1"
  /\ handles' = handles \ {Handle("webout1", Webout1Of(WebFiles[idx]))}
  /\ pc' = "closeout"
  /\ UNCHANGED <<fs, err, files, li, idx, ln, delrow, rpos, fi, run, orig, before>>

\* line 59: outfile.close()
CloseOutfile ==
  /\ pc = "closeout"
  /\ handles' = handles \ {Handle("outfile", TempOf(WebFiles[idx]))}
  /\ pc' = "closein"
  /\ UNCHANGED <<fs, err, files, li, idx, ln, delrow, rpos, fi, run, orig, before>>

\* line 60: infile.close()
CloseInfile ==
  /\ pc = "closein"
  /\ handles' = handles \ {Handle("infile", WebFiles[idx])}
  /\ pc' = "remove"
  /\ UNCHANGED <<fs, err, files, li, idx, ln, delrow, rpos, fi, run, orig, before>>

\* line 61: os.remove(file)
Remove ==
  /\ pc = "remove"
  /\ fs' = [fs EXCEPT ![WebFiles[idx]] = NoFile]
  /\ pc' = "rename"
  /\ UNCHANGED <<err, handles, files, li, idx, ln, delrow, rpos, fi, run, orig, before>>

\* line 62: os.rename(file + 'TEMP',file), and the next file of line 31
Rename ==
  /\ pc = "rename"
  /\ fs' = [fs EXCEPT ![WebFiles[idx]] = fs[TempOf(WebFiles[idx])],
                      ![TempOf(WebFiles[idx])] = NoFile]
  /\ idx' = idx + 1
  /\ pc' = IF idx = Len(WebFiles) THEN "all" ELSE "webout0"
  /\ UNCHANGED <<err, handles, files, li, ln, delrow, rpos, fi, run, orig, before>>

\* lines 84-85: f = open('all.sas', "w"); f.write(header)
OpenAll ==
  /\ pc = "all"
  /\ fs' = [fs EXCEPT ![ALL_SAS] = HEADER]
  /\ handles' = handles \cup {Handle("f", ALL_SAS)}
  /\ fi' = 1
  /\ pc' = "folder"
  /\ UNCHANGED <<err, files, li, idx, ln, delrow, rpos, run, orig, before>>

\* lines 87-95: one folder
ConcatFolder ==
  /\ pc = "folder"
  /\ fi <= Len(Folders)
  /\ \E l \in Listings(Entries(fs, Folders[fi])) :
       LET filenames == SortPaths(Matching(l, DOT_SAS))
           mc == ReadAll(fs, filenames)
       IN fs' = [fs EXCEPT ![McPath(Folders[fi])] = mc, ![ALL_SAS] = @ \o mc]
  /\ fi' = fi + 1
  /\ UNCHANGED <<pc, err, handles, files, li, idx, ln, delrow, rpos, run, orig, before>>

\* line 96: f.close()
CloseAll ==
  /\ pc = "folder"
  /\ fi > Len(Folders)
  /\ handles' = handles \ {Handle("f", ALL_SAS)}
  /\ pc' = "done"
  /\ UNCHANGED <<fs, err, files, li, idx, ln, delrow, rpos, fi, run, orig, before>>

\* build.py is run again on the tree the run before left
Rerun ==
  /\ pc = "done"
  /\ run < MaxRuns
  /\ pc' = "list"
  /\ err' = NoErr
  /\ handles' = {}
  /\ files' = <<>>
  /\ li' = 0
  /\ idx' = 1
  /\ ln' = 0
  /\ delrow' = 0
  /\ rpos' = [v \in {"webout0", "webout1", "webout2"} |-> 0]
  /\ fi' = 1
  /\ run' = run + 1
  /\ orig' = TargetsOf(fs)
  /\ before' = orig
  /\ UNCHANGED fs

Next ==
  \/ ListLua
  \/ Embed
  \/ CloseMl
  \/ CloseMlUnbound
  \/ OpenWebout("webout0", "webout1")
  \/ OpenWebout("webout1", "webout2")
  \/ OpenWebout("webout2", "outfile")
  \/ OpenOutfile
  \/ OpenInfile
  \/ SpliceLine
  \/ CloseWebout0
  \/ CloseWebout1
  \/ CloseOutfile
  \/ CloseInfile
  \/ Remove
  \/ Rename
  \/ OpenAll
  \/ ConcatFolder
  \/ CloseAll
  \/ Rerun

Spec == Init /\ [][Next]_vars

(***************************************************************************)
(* What the claims speak of, stated apart from the operators of the run.   *)
(***************************************************************************)
\* the position of a target in the list of line 30
TargetIndex(t) == IF t = MV_TARGET THEN 1 ELSE 2

\* this run has replaced target t by its rewritten text
Spliced(t) == idx > TargetIndex(t)

\* s without its trailing whitespace: the longest prefix that ends in none
TrimEnd(s) ==
  LET ends == {n \in 0..Len(s) : n = 0 \/ s[n] \notin Whitespace}
      n == CHOOSE m \in ends : \A k \in ends : k <= m
  IN SubSeq(s, 1, n)

\* a line copied through: trimmed, one newline appended
Trimmed(line) == TrimEnd(line) \o <<NL>>

TrimmedAll(lines) == Flatten([i \in 1..Len(lines) |-> Trimmed(lines[i])])

\* every single quote doubled, every other character as it is
Doubled(s) ==
  Flatten([i \in 1..Len(s) |-> IF s[i] = QUOTE THEN <<QUOTE, QUOTE>> ELSE <<s[i]>>])

\* the put statement that carries a line
PutOf(line) == PutOpen \o Doubled(TrimEnd(line)) \o PutClose

\* the line is the block-comment-close token
IsClose(line) == line = <<COMMENT_CLOSE, NL>> \/ line = <<COMMENT_CLOSE>>

\* the lines after the first line that is the close token; none when there
\* is no such line
AfterFirstClose(ws) ==
  LET closes == {i \in 1..Len(ws) : IsClose(ws[i])}
  IN IF closes = {} THEN <<>>
     ELSE SubSeq(ws, (CHOOSE i \in closes : \A j \in closes : i <= j) + 1, Len(ws))

\* one put statement per comment-stripped line of a source
StrippedPuts(content) ==
  LET body == AfterFirstClose(Lines(content))
  IN Flatten([i \in 1..Len(body) |-> PutOf(body[i])])

\* the splice sources of a target, in list order
SourcesOf(t) ==
  <<JSONOUT, IF t = MV_TARGET THEN MV_WEBOUT ELSE MM_WEBOUT, GETUSER>>

\* the put statements of the sources of a target
SourcePuts(t) ==
  Flatten([i \in 1..Len(SourcesOf(t)) |-> StrippedPuts(fs[SourcesOf(t)[i]])])

Begins(lines) == {i \in 1..Len(lines) : lines[i] = <<WEBOUT_BEGIN, NL>>}
Ends(lines) == {i \in 1..Len(lines) : lines[i] = <<WEBOUT_END, NL>>}

\* exactly one begin marker line, followed later by exactly one end marker line
OneRegion(content) ==
  LET ls == Lines(content)
  IN /\ content # NoFile
     /\ Cardinality(Begins(ls)) = 1
     /\ Cardinality(Ends(ls)) = 1
     /\ \A b \in Begins(ls) : \A e \in Ends(ls) : b < e

\* one begin marker line and no end marker line after it
OpenRegion(content) ==
  LET ls == Lines(content)
  IN /\ content # NoFile
     /\ Cardinality(Begins(ls)) = 1
     /\ \A b \in Begins(ls) : \A e \in Ends(ls) : e < b

BeginOf(content) == CHOOSE b \in Begins(Lines(content)) : TRUE
EndOf(content) == CHOOSE e \in Ends(Lines(content)) : TRUE

\* C1: a target with exactly one begin marker line followed later by exactly
\* one end marker line is rewritten to: its lines before the begin marker,
\* trimmed; the begin marker line; one put statement per comment-stripped
\* line of mp_jsonout, of the target's webout file and of mf_getuser, in
\* this order; the end marker line; its lines after the end marker, trimmed.
\* Nothing of what lay between the markers is in it.
C1_RegionReplaced ==
  \A t \in TargetPaths :
    (Spliced(t) /\ OneRegion(orig[t])) =>
      LET ls == Lines(orig[t])
          b == BeginOf(orig[t])
          e == EndOf(orig[t])
      IN fs[t] = TrimmedAll(SubSeq(ls, 1, b - 1)) \o <<WEBOUT_BEGIN, NL>>
                   \o SourcePuts(t) \o <<WEBOUT_END, NL>>
                   \o TrimmedAll(SubSeq(ls, e + 1, Len(ls)))

\* C4: when the loop reaches the begin marker with the sources unread, it
\* writes, after the marker, one put statement for every line of each source
\* that follows the first '**/' line of that source, the later '**/' lines
\* among them, and nothing for the lines up to that first '**/' line.
C4_StripToFirstClose ==
  [][(/\ pc = "line"
      /\ ln < Len(Lines(fs[WebFiles[idx]]))
      /\ Lines(fs[WebFiles[idx]])[ln + 1] = <<WEBOUT_BEGIN, NL>>
      /\ \A v \in DOMAIN rpos : rpos[v] = 0)
     => fs'[TempOf(WebFiles[idx])] =
          fs[TempOf(WebFiles[idx])] \o <<WEBOUT_BEGIN, NL>> \o SourcePuts(WebFiles[idx])]_vars

\* the *.sas files of a folder as the tree holds them
SasFilesIn(folder) ==
  {p \in AllPaths :
     /\ fs[p] # NoFile
     /\ StartsWith(p, folder \o <<"/">>)
     /\ EndsWith(p, <<".", "s", "a", "s">>)}

\* the files of S in the order of their names
NameSorted(S) ==
  CHOOSE s \in Listings(S) :
    \A i, j \in 1..Cardinality(S) : i < j => StrLess(BaseName(s[i]), BaseName(s[j]))

\* the contents of the *.sas files of a folder, in the order of their names
FolderText(folder) ==
  LET s == NameSorted(SasFilesIn(folder))
  IN Flatten([i \in 1..Len(s) |-> fs[s[i]]])

\* C2: when the run is done, all.sas is the header followed by the contents
\* of the *.sas files of base, meta, metax, viya and lua, in this order of
\* the folders and in the order of the names inside each folder, as the
\* files stand after the embedding and the splicing; this whatever the order
\* in which the folders were listed.
C2_AllSasIsSortedConcatenation ==
  pc = "done" =>
    fs[ALL_SAS] = HEADER \o FolderText(S_base) \o FolderText(S_meta)
                    \o FolderText(S_metax) \o FolderText(S_viya) \o FolderText(S_lua)

\* a run is done that put a generated macro, two spliced targets and the
\* three files of one folder into all.sas
C2_Witness ==
  /\ pc = "done"
  /\ Cardinality(SasFilesIn(S_metax)) = 3
  /\ fs[MlPath(LuaX)] # NoFile
  /\ \A t \in TargetPaths : Spliced(t) /\ fs[t] # orig[t]
  /\ Len(fs[ALL_SAS]) > Len(HEADER) + Len(fs[MV_TARGET]) + Len(fs[MM_TARGET])

\* the number of lines of a text
NumLines(content) ==
  Cardinality({i \in 1..Len(content) : content[i] = NL})
    + (IF content # <<>> /\ content[Len(content)] # NL THEN 1 ELSE 0)

\* the number of single quotes of a string
Quotes(s) == Cardinality({i \in 1..Len(s) : s[i] = QUOTE})

\* the text between the 'file' statement and 'run;' of a generated macro
BodyOf(ml, head, tail) == SubSeq(ml, Len(head) + 1, Len(ml) - Len(tail))

\* the k-th put statement carries the k-th line: trimmed, the quotes doubled
Carries(statement, line) ==
  LET text == TrimEnd(line)
  IN /\ StartsWith(statement, PutOpen)
     /\ EndsWith(statement, PutClose)
     /\ Len(statement) = Len(PutOpen) + Len(text) + Quotes(text) + Len(PutClose)
     /\ SubSeq(statement, Len(PutOpen) + 1, Len(statement) - Len(PutClose)) = Doubled(text)

\* C3: the macro generated for a lua file of N lines holds, between the
\* 'file' statement and 'run;', exactly N put statements, and the k-th of
\* them carries the k-th line of the lua file with its trailing whitespace
\* stripped and each single quote doubled.
C3_OnePutPerLine ==
  \A k \in 1..li :
    LET file == files[k]
        ml == fs[MlPath(file)]
        head == MlHead(MlName(file), BaseName(file))
        tail == MlTail(MlName(file))
        puts == Lines(BodyOf(ml, head, tail))
        lines == Lines(fs[file])
    IN /\ StartsWith(ml, head)
       /\ EndsWith(ml, tail)
       /\ Len(puts) = NumLines(fs[file])
       /\ \A n \in 1..NumLines(fs[file]) : Carries(puts[n], lines[n])

\* a lua file of two lines or more, with a single quote and with trailing
\* whitespace, has been embedded
C3_Witness ==
  \E k \in 1..li :
    /\ NumLines(fs[files[k]]) >= 2
    /\ Quotes(fs[files[k]]) >= 1
    /\ \E n \in 1..NumLines(fs[files[k]]) :
         Len(TrimEnd(Lines(fs[files[k]])[n])) + 1 < Len(Lines(fs[files[k]])[n])
    /\ fs[MlPath(files[k])] # NoFile

\* the target is the begin marker, one junk line, the end marker; one source
\* is a single line that is no '**/', the other two sources are empty
ScenarioC(t) ==
  /\ orig[t] = <<WEBOUT_BEGIN, NL, "k", NL, WEBOUT_END, NL>>
  /\ \E i \in 1..Len(SourcesOf(t)) :
       /\ NumLines(fs[SourcesOf(t)[i]]) = 1
       /\ TrimEnd(fs[SourcesOf(t)[i]]) # <<COMMENT_CLOSE>>
       /\ \A j \in 1..Len(SourcesOf(t)) : j # i => fs[SourcesOf(t)[j]] = <<>>

\* the one line of the sources of scenario C
ScenarioLine(t) ==
  Flatten([i \in 1..Len(SourcesOf(t)) |-> fs[SourcesOf(t)[i]]])

\* C5, as claimed: the target of scenario C is rewritten to the begin marker,
\* one put statement for the line of the source, the end marker.
C5_Claimed ==
  \A t \in TargetPaths :
    (Spliced(t) /\ ScenarioC(t)) =>
      fs[t] = <<WEBOUT_BEGIN, NL>> \o PutOf(ScenarioLine(t)) \o <<WEBOUT_END, NL>>

\* C5, amended: the target of scenario C is rewritten to the begin marker
\* followed at once by the end marker: a source without a '**/' line gives
\* no put statement.
C5_NoPutWithoutClose ==
  \A t \in TargetPaths :
    (Spliced(t) /\ ScenarioC(t)) => fs[t] = <<WEBOUT_BEGIN, NL, WEBOUT_END, NL>>

\* the first run has rewritten a target of scenario C
C5_Witness ==
  /\ run = 1
  /\ Spliced(MV_TARGET)
  /\ ScenarioC(MV_TARGET)
  /\ fs[MV_TARGET] # orig[MV_TARGET]

\* the statements of the splice stage
SpliceStage ==
  {"webout0", "webout1", "webout2", "outfile", "infile", "line", "close1",
   "closeout", "closein", "remove", "rename"}

\* C6: at every statement of the splice stage each target that was there
\* when the run began is there, with its whole original text or, once it is
\* replaced, with its whole rewritten text.
C6_TargetAlwaysThere ==
  \A t \in TargetPaths :
    (pc \in SpliceStage /\ orig[t] # NoFile) =>
      /\ fs[t] # NoFile
      /\ fs[t] = orig[t] \/ Spliced(t)

\* C7: when an open of a splice source or of a target fails, the run ends
\* there: all.sas is not written, the target in progress has its original
\* text if it had any, and there is no '<target>TEMP' file.
C7_AbortLeavesNothing ==
  (pc = "aborted" /\ err.kind = "FileNotFoundError") =>
    /\ run = 1 => fs[ALL_SAS] = NoFile
    /\ fs[WebFiles[idx]] = orig[WebFiles[idx]]
    /\ fs[TempOf(WebFiles[idx])] = NoFile

\* every line ends in a newline and carries no trailing whitespace before it
Clean(content) ==
  /\ content # NoFile
  /\ \A i \in 1..Len(Lines(content)) : Lines(content)[i] = Trimmed(Lines(content)[i])

\* C8, as claimed: a run on the targets that the run before has spliced, with
\* the same sources, leaves each target different from what it found.
C8_Claimed ==
  \A t \in TargetPaths : (pc = "done" /\ run >= 2) => fs[t] # orig[t]

\* C8, amended: a run on the targets that the run before has spliced, with
\* the same sources, leaves each target exactly as it found it, when every
\* line of the unspliced target ended in a newline with no whitespace before
\* it.
C8_RerunIsIdentity ==
  \A t \in TargetPaths :
    (pc = "done" /\ run >= 2 /\ Clean(before[t])) => fs[t] = orig[t]

\* a second run is done on a target whose region the first run replaced
C8_Witness ==
  /\ pc = "done"
  /\ run = 2
  /\ Clean(before[MV_TARGET])
  /\ OneRegion(before[MV_TARGET])
  /\ before[MV_TARGET] # orig[MV_TARGET]
  /\ fs[MV_TARGET] = orig[MV_TARGET]

\* C9: where the run turns to the next file of the splice stage, where the
\* next stage begins and where the run ends, by its last statement or by an
\* exception, every file object the run has opened has been closed.
C9_NoHandleLeftOpen ==
  pc \in {"webout0", "all", "done", "aborted"} => handles = {}

====
